---- MODULE Spec2Model ----
(***************************************************************************)
(* Model of dashboard.py: the Arduino status client (ArduinoClient), the   *)
(* simulated and cloud La Marzocco sources, and the DataCoordinator poll   *)
(* thread with its concurrent latest() readers.                            *)
(*                                                                         *)
(* Units.  Times are integer milliseconds.  Weights are micrograms, flows  *)
(* milligrams per second, pressures millibar, temperatures millidegrees.   *)
(* Python floats are modelled by these fixed-point integers; products are  *)
(* truncated toward minus infinity by \div.                                *)
(***************************************************************************)
EXTENDS Integers, Sequences, FiniteSets, TLC

VARIABLES
    clock,        \* time.monotonic() / time.time(), in ms
    lm_source,    \* DataCoordinator.lm_source: "sim" or "cloud"
    sim,          \* the SimulatedLaMarzoccoSource instance (sim_source / _fallback)
    co_pc,        \* position of the DataCoordinator._loop thread
    co_arduino,   \* _update_once local `arduino`
    co_shot,      \* _update_once local `shot`
    co_state,     \* DataCoordinator._state
    co_lock,      \* holder of DataCoordinator._lock: "free", "coord" or a reader
    co_stop,      \* DataCoordinator._stop
    co_cycle,     \* number of _update_once calls started
    rd_pc,        \* position of each latest() caller
    rd_tmp,       \* fields a latest() caller has read so far
    rd_ret,       \* last CombinedState each latest() caller returned (set of <= 1)
    rd_n,         \* latest() calls each caller has started
    cl_pc,        \* position of CloudLaMarzoccoSource._loop_main
    cl_latest,    \* CloudLaMarzoccoSource._latest
    cl_ready,     \* CloudLaMarzoccoSource._ready
    cl_stop,      \* CloudLaMarzoccoSource._stop
    cl_loop,      \* state of the asyncio loop: "new", "running", "stopping", "halting", "closed"
    cl_dash,      \* machine.dashboard as of the last get_dashboard()
    cl_snap,      \* _loop_main local `snapshot`
    cl_polls,     \* number of poll iterations started
    fs_resp,      \* the /status response given to fetch_status (function check)
    fs_out,       \* what fetch_status returned for it (set of <= 1)
    published,    \* history: the CombinedStates _update_once has stored
    hist          \* history: publications counted, the cloud's last good reading

coVars == <<co_pc, co_arduino, co_shot, co_state, co_lock, co_stop, co_cycle>>
rdVars == <<rd_pc, rd_tmp, rd_ret, rd_n>>
clVars == <<cl_pc, cl_latest, cl_ready, cl_stop, cl_loop, cl_dash, cl_snap, cl_polls>>
fsVars == <<fs_resp, fs_out>>
vars == <<clock, lm_source, sim, coVars, rdVars, clVars, fsVars, published, hist>>

----------------------------------------------------------------------------
(* Bounds of the model *)

\* poll cycles the Coordinator thread may start
MaxCycles == 2
\* poll iterations the cloud background loop may start
MaxPolls == 2
\* concurrent latest() callers
NumReaders == 1
\* latest() calls each caller may make
MaxReads == 2

----------------------------------------------------------------------------
(* Python values *)

\* Optional[str] = None
None == "<None>"

\* JSON values as decoded by json.loads: k is the Python type
VStr(s) == [k |-> "str", n |-> 0, s |-> s]
VInt(n) == [k |-> "int", n |-> n, s |-> ""]
VBool(b) == [k |-> "bool", n |-> IF b THEN 1 ELSE 0, s |-> ""]
VNull == [k |-> "NoneType", n |-> 0, s |-> ""]
\* a JSON array of n elements
VList(n) == [k |-> "list", n |-> n, s |-> ""]

\* the strings int() accepts, with their values
NumericStrings == {"0", "1", "2"}
StrToInt(s) == CASE s = "0" -> 0 [] s = "1" -> 1 [] s = "2" -> 2 [] OTHER -> 0
IntToStr(n) == CASE n = 0 -> "0" [] n = 1 -> "1" [] n = 2 -> "2" [] OTHER -> "<int>"

\* str(v): never raises
PyStr(v) ==
    CASE v.k = "str" -> v.s
      [] v.k = "int" -> IntToStr(v.n)
      [] v.k = "bool" -> IF v.n = 1 THEN "True" ELSE "False"
      [] v.k = "NoneType" -> "None"
      [] OTHER -> "<repr>"

\* int(v): the integer, or the exception raised
PyInt(v) ==
    CASE v.k = "int" -> [exc |-> None, n |-> v.n]
      [] v.k = "bool" -> [exc |-> None, n |-> v.n]
      [] v.k = "str" -> IF v.s \in NumericStrings
                        THEN [exc |-> None, n |-> StrToInt(v.s)]
                        ELSE [exc |-> "ValueError", n |-> 0]
      [] OTHER -> [exc |-> "TypeError", n |-> 0]

\* bool(v): truthiness, never raises
PyBool(v) ==
    CASE v.k = "str" -> v.s # ""
      [] v.k = "NoneType" -> FALSE
      [] OTHER -> v.n # 0

----------------------------------------------------------------------------
(* Data models *)

\* a note f"{prefix}: {detail}" and str.startswith on it
Note(prefix, detail) == <<prefix, detail>>
StartsWith(notes, prefix) == Len(notes) >= 1 /\ notes[1] = prefix

NoRaw == [f \in {} |-> VNull]

\* ArduinoStatus()
DefaultStatus ==
    [mode |-> "UNKNOWN", paddle |-> 0, relay_main |-> 0, override |-> "off",
     flush_active |-> FALSE, gesture_enabled |-> TRUE, gesture_flush_ms |-> 0,
     gesture_pulse_min_ms |-> 0, gesture_pulse_max_ms |-> 0,
     raw |-> NoRaw, last_error |-> None]

\* ShotMetrics(notes=...): every other field at its default
ShotMetricsWith(notes) ==
    [weight_g |-> 0, flow_g_s |-> 0, shot_time_ms |-> 0, target_weight_g |-> 0,
     pressure_bar |-> 0, boiler_temp_c |-> 0, group_temp_c |-> 0,
     brew_state |-> "IDLE", scale_connected |-> FALSE, notes |-> notes]

\* CombinedState(timestamp, arduino, shot)
CombinedState(ts, a, s) == [timestamp |-> ts, arduino |-> a, shot |-> s]

\* CombinedState() constructed at time `now`
DefaultState(now) == CombinedState(now, DefaultStatus, ShotMetricsWith(<<>>))

----------------------------------------------------------------------------
(* ArduinoClient.fetch_status *)

\* the assignments of the try block, in order
StatusFields ==
    <<"mode", "paddle", "relay_main", "override", "flush_active",
      "gesture_enabled", "gesture_flush_ms", "gesture_pulse_min_ms",
      "gesture_pulse_max_ms">>

StrFields == {"mode", "override"}
BoolFields == {"flush_active", "gesture_enabled"}

\* data.get(f) without the default argument: an absent field is coerced
\* from None
CoerceNoDefault(data, f, dflt) ==
    IF f \in StrFields
    THEN [exc |-> None, val |-> IF f \in DOMAIN data THEN PyStr(data[f]) ELSE "None"]
    ELSE IF f \in BoolFields
    THEN [exc |-> None, val |-> IF f \in DOMAIN data THEN PyBool(data[f]) ELSE FALSE]
    ELSE IF f \in DOMAIN data
         THEN LET r == PyInt(data[f]) IN [exc |-> r.exc, val |-> r.n]
         ELSE [exc |-> "TypeError", val |-> 0]

\* data.get(f, default) followed by the field's coercion:
\* [exc, val] where val is the value to assign when exc = None
Coerce(data, f, dflt) ==
    IF f \in StrFields
    THEN [exc |-> None, val |-> IF f \in DOMAIN data THEN PyStr(data[f]) ELSE dflt]
    ELSE IF f \in BoolFields
    THEN [exc |-> None, val |-> IF f \in DOMAIN data THEN PyBool(data[f]) ELSE dflt]
    ELSE IF f \in DOMAIN data
         THEN LET r == PyInt(data[f]) IN [exc |-> r.exc, val |-> r.n]
         ELSE [exc |-> None, val |-> dflt]

\* the exception classes of the model that derive from Exception
Exceptions ==
    {"URLError", "TimeoutError", "ValueError", "JSONDecodeError",
     "UnicodeDecodeError", "TypeError", "AttributeError"}

\* the except clauses without the final `except Exception`
ExceptClauseNoCatchAll(exc) ==
    CASE exc = "URLError" -> "HTTP error"
      [] exc \in {"ValueError", "JSONDecodeError", "UnicodeDecodeError"} -> "Decode error"
      [] OTHER -> None

\* which except clause of fetch_status handles an exception raised in the try
\* block: the text it stores in last_error, or None when no clause matches
ExceptClause(exc) ==
    CASE exc = "URLError" -> "HTTP error"
      [] exc \in {"ValueError", "JSONDecodeError", "UnicodeDecodeError"} -> "Decode error"
      [] exc \in Exceptions \ {"URLError", "ValueError", "JSONDecodeError",
                             "UnicodeDecodeError"} -> "Unexpected"
      [] OTHER -> None

\* the try block from status.mode on: assigns field i, i+1, ... of `status`
\* in place and stops at the first coercion that raises
RECURSIVE ParseFields(_, _, _)
ParseFields(i, status, data) ==
    IF i > Len(StatusFields)
    THEN [exc |-> None, status |-> [status EXCEPT !.raw = data]]
    ELSE LET f == StatusFields[i]
             c == Coerce(data, f, DefaultStatus[f])
         IN IF c.exc # None
            THEN [exc |-> c.exc, status |-> status]
            ELSE ParseFields(i + 1, [status EXCEPT ![f] = c.val], data)

\* The try block on one /status exchange.  `resp.exc` is the exception that
\* urlopen/read/decode/json.loads raises (None when a JSON document was
\* decoded), `resp.isobj` whether the document is a JSON object, `resp.data`
\* the object.  data.get on a non-object raises AttributeError.
TryBlock(resp) ==
    IF resp.exc # None
    THEN [exc |-> resp.exc, status |-> DefaultStatus]
    ELSE IF ~resp.isobj
    THEN [exc |-> "AttributeError", status |-> DefaultStatus]
    ELSE ParseFields(1, DefaultStatus, resp.data)

\* fetch_status as a call: the status it returns, or `raised` when the
\* exception leaves the function
FetchStatusCall(resp) ==
    LET t == TryBlock(resp)
        c == IF t.exc = None THEN None ELSE ExceptClause(t.exc)
    IN [raised |-> t.exc # None /\ c = None,
        status |-> IF t.exc = None THEN t.status
                   ELSE [t.status EXCEPT !.last_error = c]]

FetchStatus(resp) == FetchStatusCall(resp).status

RespFail(exc) == [exc |-> exc, isobj |-> FALSE, data |-> NoRaw]
RespNonObject == [exc |-> None, isobj |-> FALSE, data |-> NoRaw]
RespObject(data) == [exc |-> None, isobj |-> TRUE, data |-> data]

----------------------------------------------------------------------------
(* SimulatedLaMarzoccoSource *)

\* shot.target_weight_g of _default_config, in micrograms
TargetWeight == 36000000
\* self._boiler_temp, self._group_temp at construction, in millidegrees
BoilerStart == 94000
GroupStart == 93000
\* flow_peak, in mg/s
FlowPeak == 2600
\* seconds of the ramp (elapsed / 4.0), in ms
RampMs == 4000
\* the clamp of dt (0.001 s), in ms
MinDt == 1
\* the idle clamp of the weight (0.05 g), in micrograms
WeightEps == 50000

Max(a, b) == IF a >= b THEN a ELSE b
Min(a, b) == IF a <= b THEN a ELSE b

\* round(x, digits) to a multiple of q
RoundTo(x, q) == ((x + q \div 2) \div q) * q

\* SimulatedLaMarzoccoSource(target_weight_g) constructed at time `now`
SimInit(target, now) ==
    [target_weight_g |-> target, shot_active |-> FALSE, shot_start |-> 0,
     weight |-> 0, flow |-> 0, pressure |-> 0,
     boiler_temp |-> BoilerStart, group_temp |-> GroupStart,
     last_update |-> now]

\* notify_arduino that resumes: paddle 1 sets _shot_active and keeps
\* _shot_start, _weight and _flow
SimNotifyArduinoResumes(s, status, now) ==
    IF status.paddle = 1 /\ ~s.shot_active
    THEN [s EXCEPT !.shot_active = TRUE]
    ELSE IF status.paddle = 0 /\ s.shot_active
    THEN [s EXCEPT !.shot_active = FALSE, !.flow = 0]
    ELSE s

\* notify_arduino without its elif branch: a shot is never ended
SimNotifyArduinoNoStop(s, status, now) ==
    IF status.paddle = 1 /\ ~s.shot_active
    THEN [s EXCEPT !.shot_active = TRUE, !.shot_start = now,
                   !.weight = 0, !.flow = 0]
    ELSE s

\* notify_arduino whose elif branch leaves self._flow as it is
SimNotifyArduinoKeepsFlow(s, status, now) ==
    IF status.paddle = 1 /\ ~s.shot_active
    THEN [s EXCEPT !.shot_active = TRUE, !.shot_start = now,
                   !.weight = 0, !.flow = 0]
    ELSE IF status.paddle = 0 /\ s.shot_active
    THEN [s EXCEPT !.shot_active = FALSE]
    ELSE s

\* notify_arduino(status) at time `now`
SimNotifyArduino(s, status, now) ==
    IF status.paddle = 1 /\ ~s.shot_active
    THEN [s EXCEPT !.shot_active = TRUE, !.shot_start = now,
                   !.weight = 0, !.flow = 0]
    ELSE IF status.paddle = 0 /\ s.shot_active
    THEN [s EXCEPT !.shot_active = FALSE, !.flow = 0]
    ELSE s

\* ramp and decay of _tick, in thousandths
Ramp(elapsed) == Min(1000, (elapsed * 1000) \div RampMs)
Decay(s) ==
    Max(200, 1000 - s.weight \div (Max(1000000, (s.target_weight_g \div 10) * 11) \div 1000))

\* _tick without `self._flow = max(0.0, self._flow)`
SimTickNoFlowClamp(s, now, j) ==
    LET dt == Max(MinDt, now - s.last_update)
        elapsed == now - s.shot_start
        rd == Ramp(elapsed) * Decay(s)
        flow == (FlowPeak * (rd \div 100)) \div 10000 + j.flow
    IN IF s.shot_active
       THEN [s EXCEPT !.last_update = now,
                      !.flow = flow,
                      !.weight = s.weight + flow * dt,
                      !.pressure = 2000 + (8 * rd) \div 1000 + j.pressure,
                      !.boiler_temp = s.boiler_temp + j.boiler,
                      !.group_temp = s.group_temp + j.group]
       ELSE [s EXCEPT !.last_update = now,
                      !.flow = (s.flow * 9) \div 10,
                      !.weight = LET w == s.weight - (s.weight + 999) \div 1000
                                 IN IF w < WeightEps THEN 0 ELSE w,
                      !.pressure = (s.pressure * 8) \div 10,
                      !.boiler_temp = s.boiler_temp + j.boiler,
                      !.group_temp = s.group_temp + j.group]

\* _tick() at time `now`; j holds the four random.uniform draws
SimTick(s, now, j) ==
    LET dt == Max(MinDt, now - s.last_update)
        elapsed == now - s.shot_start
        rd == Ramp(elapsed) * Decay(s)
        flow == Max(0, (FlowPeak * (rd \div 100)) \div 10000 + j.flow)
    IN IF s.shot_active
       THEN [s EXCEPT !.last_update = now,
                      !.flow = flow,
                      !.weight = s.weight + flow * dt,
                      !.pressure = 2000 + (8 * rd) \div 1000 + j.pressure,
                      !.boiler_temp = s.boiler_temp + j.boiler,
                      !.group_temp = s.group_temp + j.group]
       ELSE [s EXCEPT !.last_update = now,
                      !.flow = (s.flow * 9) \div 10,
                      !.weight = LET w == s.weight - (s.weight + 999) \div 1000
                                 IN IF w < WeightEps THEN 0 ELSE w,
                      !.pressure = (s.pressure * 8) \div 10,
                      !.boiler_temp = s.boiler_temp + j.boiler,
                      !.group_temp = s.group_temp + j.group]

\* the ShotMetrics that get_snapshot builds from the ticked simulator
SimReading(s, now) ==
    [weight_g |-> Max(0, RoundTo(s.weight, 100000)),
     flow_g_s |-> Max(0, RoundTo(s.flow, 10)),
     shot_time_ms |-> IF s.shot_active THEN now - s.shot_start ELSE 0,
     target_weight_g |-> s.target_weight_g,
     pressure_bar |-> Max(0, RoundTo(s.pressure, 10)),
     boiler_temp_c |-> RoundTo(s.boiler_temp, 100),
     group_temp_c |-> RoundTo(s.group_temp, 100),
     brew_state |-> IF s.shot_active THEN "BREWING" ELSE "IDLE",
     scale_connected |-> TRUE,
     notes |-> <<"Simulated">>]

\* get_snapshot() at time `now`: the simulator afterwards and the reading
SimGetSnapshot(s, now, j) ==
    LET t == SimTick(s, now, j)
    IN [sim |-> t, shot |-> SimReading(t, now)]

\* the ranges of the random.uniform draws of _tick
JitterRange ==
    [flow : -100..100, pressure : -300..300, boiler : -20..20, group : -15..15]

----------------------------------------------------------------------------
(* CloudLaMarzoccoSource: dashboard parsing and get_snapshot *)

\* a numeric key that is absent, and one whose value float() rejects
Absent == -1
NonNumeric == -2

\* a widget's `output` with none of the keys the parser reads
EmptyOutput ==
    [status |-> None, brewingStartTime |-> Absent, dose_1 |-> Absent,
     target |-> Absent, temperature |-> Absent]

\* a widget: None stands for a missing or empty widget_type
Widget(widget_type, code, output) ==
    [widget_type |-> widget_type, code |-> code, output |-> output]

\* widget.get("widget_type") or widget.get("code")
WidgetType(w) == IF w.widget_type # None THEN w.widget_type ELSE w.code

\* the for loop over widgets: acc holds machine_status, brew_by_weight and
\* coffee_boiler
RECURSIVE ScanWidgets(_, _, _)
ScanWidgets(widgets, i, acc) ==
    IF i > Len(widgets)
    THEN acc
    ELSE LET t == WidgetType(widgets[i])
             out == widgets[i].output
         IN ScanWidgets(widgets, i + 1,
              IF t \in {"CM_MACHINE_STATUS", "MachineStatus"}
              THEN [acc EXCEPT !.machine_status = out]
              ELSE IF t \in {"CM_BREW_BY_WEIGHT_DOSES", "BrewByWeightDoses"}
              THEN [acc EXCEPT !.brew_by_weight = out]
              ELSE IF t \in {"CM_COFFEE_BOILER", "CoffeeBoiler"}
              THEN [acc EXCEPT !.coffee_boiler = out]
              ELSE acc)

\* machine.dashboard: None, or the widget list of its dict
NoDashboard == [none |-> TRUE, widgets |-> <<>>]
Dashboard(widgets) == [none |-> FALSE, widgets |-> widgets]

\* _parse_dashboard up to `with self._lock`: what it extracts from the
\* widgets at time `now`
DashboardValues(dash, now) ==
    LET acc == ScanWidgets(dash.widgets, 1,
                   [machine_status |-> EmptyOutput, brew_by_weight |-> EmptyOutput,
                    coffee_boiler |-> EmptyOutput])
        brewing_start == acc.machine_status.brewingStartTime
        dose == acc.brew_by_weight.dose_1
    IN [status |-> IF acc.machine_status.status = None THEN "UNKNOWN"
                   ELSE acc.machine_status.status,
        shot_time_ms |-> IF brewing_start >= 0 THEN Max(0, now - brewing_start) ELSE 0,
        target_weight |-> IF dose = Absent THEN 0 ELSE dose,
        boiler_temp |-> IF acc.coffee_boiler.target # Absent
                        THEN acc.coffee_boiler.target
                        ELSE IF acc.coffee_boiler.temperature # Absent
                        THEN acc.coffee_boiler.temperature
                        ELSE 0]

\* the reading with the scale reported as connected instead of carried
CloudReadingScaleOn(v, previous) ==
    [weight_g |-> previous.weight_g,
     flow_g_s |-> previous.flow_g_s,
     shot_time_ms |-> v.shot_time_ms,
     target_weight_g |-> IF v.target_weight # 0 THEN v.target_weight
                         ELSE previous.target_weight_g,
     pressure_bar |-> previous.pressure_bar,
     boiler_temp_c |-> IF v.boiler_temp # 0 THEN v.boiler_temp
                       ELSE previous.boiler_temp_c,
     group_temp_c |-> previous.group_temp_c,
     brew_state |-> v.status,
     scale_connected |-> TRUE,
     notes |-> <<"Cloud dashboard">>]

\* _parse_dashboard: the ShotMetrics it returns, with previous = self._latest
CloudReading(v, previous) ==
    [weight_g |-> previous.weight_g,
     flow_g_s |-> previous.flow_g_s,
     shot_time_ms |-> v.shot_time_ms,
     target_weight_g |-> IF v.target_weight # 0 THEN v.target_weight
                         ELSE previous.target_weight_g,
     pressure_bar |-> previous.pressure_bar,
     boiler_temp_c |-> IF v.boiler_temp # 0 THEN v.boiler_temp
                       ELSE previous.boiler_temp_c,
     group_temp_c |-> previous.group_temp_c,
     brew_state |-> v.status,
     scale_connected |-> previous.scale_connected,
     notes |-> <<"Cloud dashboard">>]

\* _parse_dashboard(machine) at time `now` with self._latest = previous:
\* the reading, or the exception float() raises
ParseDashboard(dash, previous, now) ==
    IF dash.none
    THEN [exc |-> None, shot |-> ShotMetricsWith(<<"No dashboard data yet">>)]
    ELSE LET v == DashboardValues(dash, now)
         IN IF v.target_weight = NonNumeric \/ v.boiler_temp = NonNumeric
            THEN [exc |-> "ValueError", shot |-> previous]
            ELSE [exc |-> None, shot |-> CloudReading(v, previous)]

\* a poll failure recorded with the tag of a setup failure
CloudErrorAsDisabled(exc) == ShotMetricsWith(Note("Cloud disabled", exc))

\* what the except clause of a poll iteration stores
CloudErrorReading(exc) == ShotMetricsWith(Note("Cloud error", exc))
\* what the except clause of the setup stores
CloudDisabledReading(exc) == ShotMetricsWith(Note("Cloud disabled", exc))
\* self._latest at construction
CloudInitialReading == ShotMetricsWith(<<"Waiting for cloud...">>)

\* get_snapshot without its readiness check
CloudNotReadyUnchecked(ready) == FALSE
\* get_snapshot, first statement: `if not self._ready.is_set()` returns the
\* placeholder
CloudNotReady(ready) == ~ready
CloudPlaceholder == ShotMetricsWith(<<"Connecting to cloud...">>)

\* get_snapshot that returns self._latest whatever its note
CloudGetLockedNoFallback(latest, s, now, j) == [sim |-> s, shot |-> latest]
\* get_snapshot, the body of `with self._lock`: the reading returned and the
\* fallback simulator afterwards
CloudGetLocked(latest, s, now, j) ==
    IF StartsWith(latest.notes, "Cloud disabled")
    THEN SimGetSnapshot(s, now, j)
    ELSE [sim |-> s, shot |-> latest]

----------------------------------------------------------------------------
(* Inputs of the fetch_status check *)

FieldSet == {StatusFields[i] : i \in 1..Len(StatusFields)}

\* a well-typed, non-default value of each field
GoodVal(f) ==
    CASE f = "mode" -> VStr("AUTO")
      [] f = "paddle" -> VInt(1)
      [] f = "relay_main" -> VInt(1)
      [] f = "override" -> VStr("on")
      [] f = "flush_active" -> VBool(TRUE)
      [] f = "gesture_enabled" -> VBool(FALSE)
      [] OTHER -> VInt(2)

\* other values a field may carry
OddVals == {VStr("abc"), VStr("1"), VNull, VInt(0), VList(0)}

\* the objects in which every present field is well typed, and those with
\* one present field replaced by another value
GoodObjects == {[f \in P |-> GoodVal(f)] : P \in SUBSET FieldSet}
FetchObjects ==
    GoodObjects
    \cup UNION {{[o EXCEPT ![f] = v] : f \in DOMAIN o, v \in OddVals} : o \in GoodObjects}

TransportFailures == {"URLError", "TimeoutError"}
BodyFailures == {"UnicodeDecodeError", "JSONDecodeError"}

FetchInputs ==
    {RespFail(e) : e \in TransportFailures \cup BodyFailures}
    \cup {RespNonObject}
    \cup {RespObject(o) : o \in FetchObjects}

----------------------------------------------------------------------------
(* DataCoordinator: construction *)

CredentialFields ==
    {"username", "password", "serial_number", "installation_id",
     "installation_secret_b64", "installation_private_key_b64"}

\* la_marzocco configurations: enable_cloud, which credential fields are
\* non-empty, and whether CloudLaMarzoccoSource(...) raises
Configs ==
    [enable_cloud : BOOLEAN, present : SUBSET CredentialFields, ctor_raises : BOOLEAN]

\* source selection without the try/except around CloudLaMarzoccoSource(...)
SelectSourceNoExcept(cfg) ==
    IF cfg.enable_cloud /\ cfg.present = CredentialFields THEN "cloud" ELSE "sim"

\* DataCoordinator.__init__: the source chosen as lm_source
SelectSource(cfg) ==
    IF cfg.enable_cloud
    THEN IF cfg.present = CredentialFields
         THEN IF cfg.ctor_raises THEN "sim" ELSE "cloud"
         ELSE "sim"
    ELSE "sim"

\* refresh_rate_ms of _default_config
RefreshRateMs == 200
\* poll_interval = max(0.1, refresh_rate_ms / 1000)
PollIntervalMs == Max(100, RefreshRateMs)
\* the time a /status exchange takes, in ms
AnswerMs == 10

\* threading.Lock: who holds it
FreeLock == [kind |-> "free", id |-> 0]
CoordHolder == [kind |-> "coord", id |-> 0]
ReaderHolder(r) == [kind |-> "reader", id |-> r]
\* a lock that excludes nobody
CanAcquireUnlocked(lock) == TRUE
\* `with self._lock` enters only when nobody holds the lock
CanAcquire(lock) == lock = FreeLock

Readers == 1..NumReaders

\* a time or count that is not there yet
Never == -1

\* npub: publications by _update_once; resp: the /status exchange of the
\* last fetch_status; cl_good: the reading the cloud loop stored last from a
\* successful poll; at_stop: npub when DataCoordinator.stop() was called
NoHist == [npub |-> 0, resp |-> RespNonObject, cl_good |-> {}, at_stop |-> Never]

\* the state after DataCoordinator.__init__ chose `source`, with history h
InitState(source, h) ==
    /\ clock = 0
    /\ lm_source = source
    /\ sim = SimInit(TargetWeight, 0)
    /\ co_pc = "loop"
    /\ co_arduino = DefaultStatus
    /\ co_shot = ShotMetricsWith(<<>>)
    /\ co_state = DefaultState(0)
    /\ co_lock = FreeLock
    /\ co_stop = FALSE
    /\ co_cycle = 0
    /\ rd_pc = [r \in Readers |-> "idle"]
    /\ rd_tmp = [r \in Readers |-> DefaultState(0)]
    /\ rd_ret = [r \in Readers |-> {}]
    /\ rd_n = [r \in Readers |-> 0]
    /\ cl_pc = IF source = "cloud" THEN "start" ELSE "none"
    /\ cl_latest = CloudInitialReading
    /\ cl_ready = FALSE
    /\ cl_stop = FALSE
    /\ cl_loop = "new"
    /\ cl_dash = NoDashboard
    /\ cl_snap = CloudInitialReading
    /\ cl_polls = 0
    /\ fs_resp = RespNonObject
    /\ fs_out = {}
    /\ published = {}
    /\ hist = h

InitFor(source) == InitState(source, NoHist)

Init == \E cfg \in Configs : InitFor(SelectSource(cfg))

----------------------------------------------------------------------------
(* DataCoordinator: the poll thread *)

\* a loop that never looks at self._stop
CoordLoopIgnoresStop ==
    /\ co_pc = "loop"
    /\ co_cycle < MaxCycles /\ co_pc' = "fetch" /\ co_cycle' = co_cycle + 1
    /\ UNCHANGED <<clock, lm_source, sim, co_arduino, co_shot, co_state, co_lock,
                   co_stop, rdVars, clVars, fsVars, published, hist>>

\* a loop whose cycle takes self._lock before fetch_status
CoordLoopLocked ==
    /\ co_pc = "loop"
    /\ IF co_stop
       THEN co_pc' = "done" /\ UNCHANGED <<co_cycle, co_lock>>
       ELSE /\ co_cycle < MaxCycles /\ co_pc' = "fetch" /\ co_cycle' = co_cycle + 1
            /\ CanAcquire(co_lock) /\ co_lock' = CoordHolder
    /\ UNCHANGED <<clock, lm_source, sim, co_arduino, co_shot, co_state,
                   co_stop, rdVars, clVars, fsVars, published, hist>>

\* `while not self._stop.is_set()`: leave the loop or start a cycle
CoordLoop ==
    /\ co_pc = "loop"
    /\ IF co_stop
       THEN co_pc' = "done" /\ UNCHANGED co_cycle
       ELSE co_cycle < MaxCycles /\ co_pc' = "fetch" /\ co_cycle' = co_cycle + 1
    /\ UNCHANGED <<clock, lm_source, sim, co_arduino, co_shot, co_state, co_lock,
                   co_stop, rdVars, clVars, fsVars, published, hist>>

\* arduino = self.arduino_client.fetch_status(), which takes d ms; an
\* exception that leaves fetch_status ends the thread
CoordFetch(resp, d) ==
    /\ co_pc = "fetch"
    /\ clock' = clock + d
    /\ LET c == FetchStatusCall(resp)
       IN IF c.raised
          THEN co_pc' = "crashed" /\ UNCHANGED co_arduino
          ELSE co_pc' = "notify" /\ co_arduino' = c.status
    /\ hist' = [hist EXCEPT !.resp = resp]
    /\ UNCHANGED <<lm_source, sim, co_shot, co_state, co_lock, co_stop, co_cycle,
                   rdVars, clVars, fsVars, published>>

\* notify_arduino called with the status of the cycle before (the published
\* one) instead of the one just fetched
CoordNotifyStale ==
    /\ co_pc = "notify"
    /\ sim' = SimNotifyArduino(sim, co_state.arduino, clock)
    /\ co_pc' = "snapshot"
    /\ UNCHANGED <<clock, lm_source, co_arduino, co_shot, co_state, co_lock,
                   co_stop, co_cycle, rdVars, clVars, fsVars, published, hist>>

\* self.lm_source.notify_arduino(arduino): the simulator's own method, or the
\* cloud source's, which forwards to its fallback simulator
CoordNotify ==
    /\ co_pc = "notify"
    /\ sim' = SimNotifyArduino(sim, co_arduino, clock)
    /\ co_pc' = "snapshot"
    /\ UNCHANGED <<clock, lm_source, co_arduino, co_shot, co_state, co_lock,
                   co_stop, co_cycle, rdVars, clVars, fsVars, published, hist>>

\* shot = self.lm_source.get_snapshot(): the simulator's, or the cloud
\* source's up to its readiness check
CoordSnapshot(j) ==
    /\ co_pc = "snapshot"
    /\ IF lm_source = "sim"
       THEN LET g == SimGetSnapshot(sim, clock, j)
            IN sim' = g.sim /\ co_shot' = g.shot /\ co_pc' = "acquire"
       ELSE IF CloudNotReady(cl_ready)
       THEN co_shot' = CloudPlaceholder /\ co_pc' = "acquire" /\ UNCHANGED sim
       ELSE co_pc' = "snap_locked" /\ UNCHANGED <<sim, co_shot>>
    /\ UNCHANGED <<clock, lm_source, co_arduino, co_state, co_lock, co_stop,
                   co_cycle, rdVars, clVars, fsVars, published, hist>>

\* the cloud source's get_snapshot inside `with self._lock`
CoordSnapLocked(j) ==
    /\ co_pc = "snap_locked"
    /\ LET g == CloudGetLocked(cl_latest, sim, clock, j)
       IN sim' = g.sim /\ co_shot' = g.shot
    /\ co_pc' = "acquire"
    /\ UNCHANGED <<clock, lm_source, co_arduino, co_state, co_lock, co_stop,
                   co_cycle, rdVars, clVars, fsVars, published, hist>>

\* _update_once: `with self._lock`
CoordAcquire ==
    /\ co_pc = "acquire"
    /\ CanAcquire(co_lock)
    /\ co_lock' = CoordHolder
    /\ co_pc' = "publish"
    /\ UNCHANGED <<clock, lm_source, sim, co_arduino, co_shot, co_state, co_stop,
                   co_cycle, rdVars, clVars, fsVars, published, hist>>

\* _update_once: self._state = CombinedState(time.time(), arduino, shot), and
\* the lock is released; `keep` adds the state to the history `published`
CoordPublish(keep) ==
    /\ co_pc = "publish"
    /\ co_state' = CombinedState(clock, co_arduino, co_shot)
    /\ co_lock' = FreeLock
    /\ co_pc' = "sleep"
    /\ published' = IF keep
                    THEN published \cup {CombinedState(clock, co_arduino, co_shot)}
                    ELSE published
    /\ hist' = [hist EXCEPT !.npub = @ + 1]
    /\ UNCHANGED <<clock, lm_source, sim, co_arduino, co_shot, co_stop, co_cycle,
                   rdVars, clVars, fsVars>>

\* time.sleep(poll_interval)
CoordSleep ==
    /\ co_pc = "sleep"
    /\ clock' = clock + PollIntervalMs
    /\ co_pc' = "loop"
    /\ UNCHANGED <<lm_source, sim, co_arduino, co_shot, co_state, co_lock, co_stop,
                   co_cycle, rdVars, clVars, fsVars, published, hist>>

\* DataCoordinator.stop(), called from another thread
CoordStop ==
    /\ ~co_stop
    /\ co_stop' = TRUE
    /\ hist' = [hist EXCEPT !.at_stop = hist.npub]
    /\ UNCHANGED <<clock, lm_source, sim, co_pc, co_arduino, co_shot, co_state,
                   co_lock, co_cycle, rdVars, clVars, fsVars, published>>

----------------------------------------------------------------------------
(* DataCoordinator.latest(), called from any number of threads *)

\* `with self._lock`, then timestamp=self._state.timestamp
LatestAcquire(r) ==
    /\ rd_pc[r] = "idle"
    /\ rd_n[r] < MaxReads
    /\ CanAcquire(co_lock)
    /\ co_lock' = ReaderHolder(r)
    /\ rd_n' = [rd_n EXCEPT ![r] = @ + 1]
    /\ rd_tmp' = [rd_tmp EXCEPT ![r].timestamp = co_state.timestamp]
    /\ rd_pc' = [rd_pc EXCEPT ![r] = "arduino"]
    /\ UNCHANGED <<clock, lm_source, sim, co_pc, co_arduino, co_shot, co_state,
                   co_stop, co_cycle, rd_ret, clVars, fsVars, published, hist>>

\* arduino=self._state.arduino
LatestReadArduino(r) ==
    /\ rd_pc[r] = "arduino"
    /\ rd_tmp' = [rd_tmp EXCEPT ![r].arduino = co_state.arduino]
    /\ rd_pc' = [rd_pc EXCEPT ![r] = "shot"]
    /\ UNCHANGED <<clock, lm_source, sim, coVars, rd_ret, rd_n, clVars, fsVars, published, hist>>

\* shot=self._state.shot; the copy is returned and the lock released
LatestReturn(r) ==
    /\ rd_pc[r] = "shot"
    /\ rd_ret' = [rd_ret EXCEPT ![r] = {[rd_tmp[r] EXCEPT !.shot = co_state.shot]}]
    /\ rd_tmp' = [rd_tmp EXCEPT ![r].shot = co_state.shot]
    /\ rd_pc' = [rd_pc EXCEPT ![r] = "idle"]
    /\ co_lock' = FreeLock
    /\ UNCHANGED <<clock, lm_source, sim, co_pc, co_arduino, co_shot, co_state,
                   co_stop, co_cycle, rd_n, clVars, fsVars, published, hist>>

----------------------------------------------------------------------------
(* CloudLaMarzoccoSource: the background thread (_run_loop, _loop_main) *)

\* the positions at which _loop_main is suspended in an await
AwaitPcs == {"register", "token", "get_dashboard", "sleep"}

\* an await can complete while the event loop runs; once loop.stop() is
\* queued, at most the step that was already due still runs
AwaitCompletes == cl_loop \in {"running", "stopping"}
AfterAwait == IF cl_loop = "stopping" THEN "halting" ELSE cl_loop

\* exceptions of the cloud client
SetupErrors == {"AuthError"}
PollErrors == {"RequestError"}

\* run_until_complete starts _loop_main: the import and the client
\* constructor, up to `await client.async_register_client()`
CloudStart(exc) ==
    /\ cl_pc = "start"
    /\ cl_loop' = "running"
    /\ IF exc = None
       THEN cl_pc' = "register" /\ UNCHANGED cl_snap
       ELSE cl_pc' = "fail_ready" /\ cl_snap' = CloudDisabledReading(exc)
    /\ UNCHANGED <<clock, lm_source, sim, coVars, rdVars, cl_latest, cl_ready,
                   cl_stop, cl_dash, cl_polls, fsVars, published, hist>>

\* await client.async_register_client() returns or raises
CloudRegister(exc) ==
    /\ cl_pc = "register"
    /\ AwaitCompletes
    /\ cl_loop' = AfterAwait
    /\ IF exc = None
       THEN cl_pc' = "token" /\ UNCHANGED cl_snap
       ELSE cl_pc' = "fail_ready" /\ cl_snap' = CloudDisabledReading(exc)
    /\ UNCHANGED <<clock, lm_source, sim, coVars, rdVars, cl_latest, cl_ready,
                   cl_stop, cl_dash, cl_polls, fsVars, published, hist>>

\* await client.async_get_access_token() returns or raises; then the machine
\* is constructed and self._ready.set() runs
CloudToken(exc) ==
    /\ cl_pc = "token"
    /\ AwaitCompletes
    /\ cl_loop' = AfterAwait
    /\ IF exc = None
       THEN cl_pc' = "poll_check" /\ cl_ready' = TRUE /\ UNCHANGED cl_snap
       ELSE cl_pc' = "fail_ready" /\ cl_snap' = CloudDisabledReading(exc)
                                  /\ UNCHANGED cl_ready
    /\ UNCHANGED <<clock, lm_source, sim, coVars, rdVars, cl_latest, cl_stop,
                   cl_dash, cl_polls, fsVars, published, hist>>

\* a setup except clause that does not set readiness
CloudFailReadyUnset ==
    /\ cl_pc = "fail_ready"
    /\ cl_pc' = "fail_store"
    /\ UNCHANGED <<clock, lm_source, sim, coVars, rdVars, cl_latest, cl_stop, cl_ready,
                   cl_loop, cl_dash, cl_snap, cl_polls, fsVars, published, hist>>

\* the setup's except clause: self._ready.set()
CloudFailReady ==
    /\ cl_pc = "fail_ready"
    /\ cl_ready' = TRUE
    /\ cl_pc' = "fail_store"
    /\ UNCHANGED <<clock, lm_source, sim, coVars, rdVars, cl_latest, cl_stop,
                   cl_loop, cl_dash, cl_snap, cl_polls, fsVars, published, hist>>

\* a setup except clause that also runs the fallback simulator's _tick
CloudFailStoreTicks ==
    /\ cl_pc = "fail_store"
    /\ cl_latest' = cl_snap
    /\ sim' = SimTick(sim, clock, [flow |-> 0, pressure |-> 0, boiler |-> 20, group |-> 0])
    /\ cl_pc' = "done"
    /\ cl_loop' = "closed"
    /\ UNCHANGED <<clock, lm_source, coVars, rdVars, cl_ready, cl_stop,
                   cl_dash, cl_snap, cl_polls, fsVars, published, hist>>

\* the setup's except clause: self._latest = ShotMetrics("Cloud disabled: ..."),
\* and _loop_main returns
CloudFailStore ==
    /\ cl_pc = "fail_store"
    /\ cl_latest' = cl_snap
    /\ cl_pc' = "done"
    /\ cl_loop' = "closed"
    /\ UNCHANGED <<clock, lm_source, sim, coVars, rdVars, cl_ready, cl_stop,
                   cl_dash, cl_snap, cl_polls, fsVars, published, hist>>

\* `while not self._stop.is_set()`
CloudPollCheck ==
    /\ cl_pc = "poll_check"
    /\ IF cl_stop
       THEN cl_pc' = "done" /\ cl_loop' = "closed" /\ UNCHANGED cl_polls
       ELSE /\ cl_polls < MaxPolls
            /\ cl_pc' = "get_dashboard"
            /\ cl_polls' = cl_polls + 1
            /\ UNCHANGED cl_loop
    /\ UNCHANGED <<clock, lm_source, sim, coVars, rdVars, cl_latest, cl_ready,
                   cl_stop, cl_dash, cl_snap, fsVars, published, hist>>

\* await machine.get_dashboard() returns with machine.dashboard = dash
CloudGetDashboard(dash) ==
    /\ cl_pc = "get_dashboard"
    /\ AwaitCompletes
    /\ cl_loop' = AfterAwait
    /\ cl_dash' = dash
    /\ cl_pc' = "parse"
    /\ UNCHANGED <<clock, lm_source, sim, coVars, rdVars, cl_latest, cl_ready,
                   cl_stop, cl_snap, cl_polls, fsVars, published, hist>>

\* await machine.get_dashboard() raises
CloudGetDashboardFails(exc) ==
    /\ cl_pc = "get_dashboard"
    /\ AwaitCompletes
    /\ cl_loop' = AfterAwait
    /\ cl_snap' = CloudErrorReading(exc)
    /\ cl_pc' = "poll_error"
    /\ UNCHANGED <<clock, lm_source, sim, coVars, rdVars, cl_latest, cl_ready,
                   cl_stop, cl_dash, cl_polls, fsVars, published, hist>>

\* snapshot = self._parse_dashboard(machine)
CloudParse ==
    /\ cl_pc = "parse"
    /\ LET r == ParseDashboard(cl_dash, cl_latest, clock)
       IN IF r.exc = None
          THEN cl_snap' = r.shot /\ cl_pc' = "store"
          ELSE cl_snap' = CloudErrorReading(r.exc) /\ cl_pc' = "poll_error"
    /\ UNCHANGED <<clock, lm_source, sim, coVars, rdVars, cl_latest, cl_ready,
                   cl_stop, cl_loop, cl_dash, cl_polls, fsVars, published, hist>>

\* with self._lock: self._latest = snapshot
CloudStore ==
    /\ cl_pc = "store"
    /\ cl_latest' = cl_snap
    /\ cl_pc' = "sleep"
    /\ hist' = [hist EXCEPT !.cl_good = {cl_snap}]
    /\ UNCHANGED <<clock, lm_source, sim, coVars, rdVars, cl_ready, cl_stop,
                   cl_loop, cl_dash, cl_snap, cl_polls, fsVars, published>>

\* a poll failure that ends _loop_main instead of being caught in the loop
CloudPollErrorEnds ==
    /\ cl_pc = "poll_error"
    /\ cl_latest' = cl_snap
    /\ cl_pc' = "done"
    /\ cl_loop' = "closed"
    /\ UNCHANGED <<clock, lm_source, sim, coVars, rdVars, cl_ready, cl_stop,
                   cl_dash, cl_snap, cl_polls, fsVars, published, hist>>

\* the poll's except clause: self._latest = ShotMetrics("Cloud error: ...")
CloudPollError ==
    /\ cl_pc = "poll_error"
    /\ cl_latest' = cl_snap
    /\ cl_pc' = "sleep"
    /\ UNCHANGED <<clock, lm_source, sim, coVars, rdVars, cl_ready, cl_stop,
                   cl_loop, cl_dash, cl_snap, cl_polls, fsVars, published, hist>>

\* await asyncio.sleep(1.0) returns
CloudSleep ==
    /\ cl_pc = "sleep"
    /\ AwaitCompletes
    /\ cl_loop' = AfterAwait
    /\ cl_pc' = "poll_check"
    /\ UNCHANGED <<clock, lm_source, sim, coVars, rdVars, cl_latest, cl_ready,
                   cl_stop, cl_dash, cl_snap, cl_polls, fsVars, published, hist>>

\* the event loop processes loop.stop(): run_until_complete raises and
\* _loop_main stays suspended in its await
CloudLoopStopped ==
    /\ cl_pc \in AwaitPcs
    /\ cl_loop \in {"stopping", "halting"}
    /\ cl_pc' = "abandoned"
    /\ cl_loop' = "closed"
    /\ UNCHANGED <<clock, lm_source, sim, coVars, rdVars, cl_latest, cl_ready,
                   cl_stop, cl_dash, cl_snap, cl_polls, fsVars, published, hist>>

\* CloudLaMarzoccoSource.stop(), called from another thread
CloudStop ==
    /\ lm_source = "cloud"
    /\ ~cl_stop
    /\ cl_stop' = TRUE
    /\ cl_loop' = IF cl_loop = "running" THEN "stopping" ELSE cl_loop
    /\ UNCHANGED <<clock, lm_source, sim, coVars, rdVars, cl_pc, cl_latest,
                   cl_ready, cl_dash, cl_snap, cl_polls, fsVars, published, hist>>

----------------------------------------------------------------------------
(* Inputs of the system specifications *)

\* /status exchanges: paddle closed, paddle open, host unreachable, and an
\* object whose relay_main is null after a valid mode and paddle
SpecResponses ==
    {RespObject([f \in {"mode", "paddle"} |-> GoodVal(f)]),
     RespObject([f \in {"paddle"} |-> VInt(0)]),
     RespFail("URLError"),
     RespObject([f \in {"mode", "paddle", "relay_main"} |->
                   IF f = "relay_main" THEN VNull ELSE GoodVal(f)])}

\* the times a /status exchange takes
SpecDelays == {AnswerMs}

\* random.uniform draws of one _tick
SpecJitters == {[flow |-> 100, pressure |-> -300, boiler |-> 20, group |-> -15]}

\* dashboards: all three widgets, the machine status alone (brewing since
\* BrewStart), a dose weight that is no number, and no dashboard
\* a brewingStartTime later than any time.time() of the model, in ms
BrewStart == 100000
DashFull ==
    Dashboard(<<Widget("CM_MACHINE_STATUS", None, [EmptyOutput EXCEPT !.status = "Brewing"]),
                Widget(None, "BrewByWeightDoses", [EmptyOutput EXCEPT !.dose_1 = 40000000]),
                Widget("CM_COFFEE_BOILER", None, [EmptyOutput EXCEPT !.target = 95000])>>)
DashStatus ==
    Dashboard(<<Widget("MachineStatus", None,
                       [EmptyOutput EXCEPT !.status = "StandBy", !.brewingStartTime = BrewStart])>>)
DashBadDose ==
    Dashboard(<<Widget("CM_BREW_BY_WEIGHT_DOSES", None,
                       [EmptyOutput EXCEPT !.dose_1 = NonNumeric])>>)
SpecDashboards == {DashFull, DashBadDose}
CloudDashboards == {DashFull, DashStatus, DashBadDose, NoDashboard}

\* /status exchanges of the cloud specification: paddle closed, host
\* unreachable
CloudResponses ==
    {RespObject([f \in {"mode", "paddle"} |-> GoodVal(f)]), RespFail("URLError")}

----------------------------------------------------------------------------
(* Specifications *)

\* The Coordinator thread with either source, the cloud source's background
\* thread, and DataCoordinator.stop()
Next ==
    \/ CoordLoop
    \/ \E resp \in SpecResponses, d \in SpecDelays : CoordFetch(resp, d)
    \/ CoordNotify
    \/ \E j \in SpecJitters : CoordSnapshot(j)
    \/ \E j \in SpecJitters : CoordSnapLocked(j)
    \/ CoordAcquire
    \/ CoordPublish(FALSE)
    \/ CoordSleep
    \/ CoordStop
    \/ \E exc \in {None} \cup SetupErrors : CloudStart(exc)
    \/ \E exc \in {None} \cup SetupErrors : CloudRegister(exc)
    \/ \E exc \in {None} \cup SetupErrors : CloudToken(exc)
    \/ CloudFailReady
    \/ CloudFailStore
    \/ CloudPollCheck
    \/ \E dash \in SpecDashboards : CloudGetDashboard(dash)
    \/ \E exc \in PollErrors : CloudGetDashboardFails(exc)
    \/ CloudParse
    \/ CloudStore
    \/ CloudPollError
    \/ CloudSleep

Spec == Init /\ [][Next]_vars

\* the steps of the Coordinator thread
CoordThread ==
    \/ CoordLoop
    \/ \E resp \in SpecResponses, d \in SpecDelays : CoordFetch(resp, d)
    \/ CoordNotify
    \/ \E j \in SpecJitters : CoordSnapshot(j)
    \/ \E j \in SpecJitters : CoordSnapLocked(j)
    \/ CoordAcquire
    \/ CoordPublish(FALSE)
    \/ CoordSleep

\* the steps of the cloud source's thread, polling one dashboard
CloudThread ==
    \/ \E exc \in {None} \cup SetupErrors : CloudStart(exc)
    \/ \E exc \in {None} \cup SetupErrors : CloudRegister(exc)
    \/ \E exc \in {None} \cup SetupErrors : CloudToken(exc)
    \/ CloudFailReady
    \/ CloudFailStore
    \/ CloudPollCheck
    \/ CloudGetDashboard(DashFull)
    \/ \E exc \in PollErrors : CloudGetDashboardFails(exc)
    \/ CloudParse
    \/ CloudStore
    \/ CloudPollError
    \/ CloudSleep

NextFair == CoordThread \/ CoordStop \/ CloudThread

\* the Coordinator thread scheduled as long as it can run
SpecFair == Init /\ [][NextFair]_vars /\ WF_vars(CoordThread)

\* The cloud source: its background thread, its stop(), and the Coordinator
\* thread as the caller of notify_arduino and get_snapshot
NextCloud ==
    \/ CoordLoop
    \/ \E resp \in CloudResponses, d \in SpecDelays : CoordFetch(resp, d)
    \/ CoordNotify
    \/ \E j \in SpecJitters : CoordSnapshot(j)
    \/ \E j \in SpecJitters : CoordSnapLocked(j)
    \/ CoordAcquire
    \/ CoordPublish(FALSE)
    \/ CoordSleep
    \/ CoordStop
    \/ \E exc \in {None} \cup SetupErrors : CloudStart(exc)
    \/ \E exc \in {None} \cup SetupErrors : CloudRegister(exc)
    \/ \E exc \in {None} \cup SetupErrors : CloudToken(exc)
    \/ CloudFailReady
    \/ CloudFailStore
    \/ CloudPollCheck
    \/ \E dash \in CloudDashboards : CloudGetDashboard(dash)
    \/ \E exc \in PollErrors : CloudGetDashboardFails(exc)
    \/ CloudParse
    \/ CloudStore
    \/ CloudPollError
    \/ CloudSleep
    \/ CloudLoopStopped
    \/ CloudStop

SpecCloud == InitFor("cloud") /\ [][NextCloud]_vars

\* The Coordinator thread with the simulated source and concurrent latest()
\* callers
NextReaders ==
    \/ CoordLoop
    \/ \E resp \in CloudResponses, d \in SpecDelays : CoordFetch(resp, d)
    \/ CoordNotify
    \/ \E j \in SpecJitters : CoordSnapshot(j)
    \/ CoordAcquire
    \/ CoordPublish(TRUE)
    \/ CoordSleep
    \/ CoordStop
    \/ \E r \in Readers : LatestAcquire(r)
    \/ \E r \in Readers : LatestReadArduino(r)
    \/ \E r \in Readers : LatestReturn(r)

SpecReaders == InitFor("sim") /\ [][NextReaders]_vars

\* fetch_status applied to one /status exchange
InitFetch ==
    /\ clock = 0
    /\ lm_source = "sim"
    /\ sim = SimInit(TargetWeight, 0)
    /\ co_pc = "loop"
    /\ co_arduino = DefaultStatus
    /\ co_shot = ShotMetricsWith(<<>>)
    /\ co_state = DefaultState(0)
    /\ co_lock = FreeLock
    /\ co_stop = FALSE
    /\ co_cycle = 0
    /\ rd_pc = [r \in Readers |-> "idle"]
    /\ rd_tmp = [r \in Readers |-> DefaultState(0)]
    /\ rd_ret = [r \in Readers |-> {}]
    /\ rd_n = [r \in Readers |-> 0]
    /\ cl_pc = "none"
    /\ cl_latest = CloudInitialReading
    /\ cl_ready = FALSE
    /\ cl_stop = FALSE
    /\ cl_loop = "new"
    /\ cl_dash = NoDashboard
    /\ cl_snap = CloudInitialReading
    /\ cl_polls = 0
    /\ fs_resp \in FetchInputs
    /\ fs_out = {}
    /\ published = {}
    /\ hist = NoHist

FetchApply ==
    /\ fs_out = {}
    /\ fs_out' = {FetchStatusCall(fs_resp)}
    /\ UNCHANGED <<clock, lm_source, sim, coVars, rdVars, clVars, fs_resp, published, hist>>

SpecFetch == InitFetch /\ [][FetchApply]_vars

----------------------------------------------------------------------------
(* The three contexts together: poll thread, cloud thread, UI thread *)

\* the thread of DashboardApp._refresh, the one caller of latest()
UiReader == 1

NextShared ==
    \/ CoordLoop
    \/ \E resp \in CloudResponses, d \in SpecDelays : CoordFetch(resp, d)
    \/ CoordNotify
    \/ \E j \in SpecJitters : CoordSnapshot(j)
    \/ \E j \in SpecJitters : CoordSnapLocked(j)
    \/ CoordAcquire
    \/ CoordPublish(FALSE)
    \/ CoordSleep
    \/ CloudThread
    \/ LatestAcquire(UiReader)
    \/ LatestReadArduino(UiReader)
    \/ LatestReturn(UiReader)

SpecShared == InitFor("cloud") /\ [][NextShared]_vars

----------------------------------------------------------------------------
(* The poll thread on the simulator over several cycles *)

\* poll cycles of this specification
MaxShotCycles == 4

\* ArduinoClient's timeout, in ms
FetchTimeoutMs == 600

\* /status exchanges: paddle closed, paddle open, host unreachable, and a
\* read that times out
ShotResponses ==
    {RespObject([f \in {"mode", "paddle"} |-> GoodVal(f)]),
     RespObject([f \in {"paddle"} |-> VInt(0)]),
     RespFail("URLError"),
     RespFail("TimeoutError")}

\* a /status exchange answers at once or takes up to the timeout
ShotDelays == {AnswerMs, FetchTimeoutMs}

\* random.uniform draws of one _tick, at both ends of the flow's range
ShotJitters ==
    [flow : {-100, 100}, pressure : {-300}, boiler : {20}, group : {-15}]

\* `while not self._stop.is_set()` with MaxShotCycles cycles
CoordLoopShots ==
    /\ co_pc = "loop"
    /\ IF co_stop
       THEN co_pc' = "done" /\ UNCHANGED co_cycle
       ELSE co_cycle < MaxShotCycles /\ co_pc' = "fetch" /\ co_cycle' = co_cycle + 1
    /\ UNCHANGED <<clock, lm_source, sim, co_arduino, co_shot, co_state, co_lock,
                   co_stop, rdVars, clVars, fsVars, published, hist>>

NextShots ==
    \/ CoordLoopShots
    \/ \E resp \in ShotResponses, d \in ShotDelays : CoordFetch(resp, d)
    \/ CoordNotify
    \/ \E j \in ShotJitters : CoordSnapshot(j)
    \/ CoordAcquire
    \/ CoordPublish(FALSE)
    \/ CoordSleep

SpecShots == InitFor("sim") /\ [][NextShots]_vars

----------------------------------------------------------------------------
(* CloudLaMarzoccoSource alone: its thread and stop() *)

\* the steps of the cloud source's thread
CloudThreadSteps ==
    \/ \E exc \in {None} \cup SetupErrors : CloudStart(exc)
    \/ \E exc \in {None} \cup SetupErrors : CloudRegister(exc)
    \/ \E exc \in {None} \cup SetupErrors : CloudToken(exc)
    \/ CloudFailReady
    \/ CloudFailStore
    \/ CloudPollCheck
    \/ \E dash \in CloudDashboards : CloudGetDashboard(dash)
    \/ \E exc \in PollErrors : CloudGetDashboardFails(exc)
    \/ CloudParse
    \/ CloudStore
    \/ CloudPollError
    \/ CloudSleep
    \/ CloudLoopStopped

NextCloudThread == CloudThreadSteps \/ CloudStop

\* the thread is scheduled as long as it can run
SpecCloudThread ==
    InitFor("cloud") /\ [][NextCloudThread]_vars /\ WF_vars(CloudThreadSteps)

----------------------------------------------------------------------------
(* SimulatedLaMarzoccoSource driven call by call *)

\* the number of get_snapshot() calls made on the simulator
MaxTicks == 3

\* the time between two calls, in ms: a poll interval, a second
SimDeltas == {200, 1000}

\* random.uniform draws of one _tick, at the ends of and inside their ranges
SimJitters ==
    [flow : {-100, 60, 100}, pressure : {-300, 300}, boiler : {20}, group : {-15}]

\* co_pc holds the last call made on the simulator: "constructed", "started"
\* (a notify_arduino that began a shot), "notified" (any other
\* notify_arduino), "snapshot"
InitSim ==
    /\ clock = 0
    /\ lm_source = "sim"
    /\ sim = SimInit(TargetWeight, 0)
    /\ co_pc = "constructed"
    /\ co_arduino = DefaultStatus
    /\ co_shot = ShotMetricsWith(<<>>)
    /\ co_state = DefaultState(0)
    /\ co_lock = FreeLock
    /\ co_stop = FALSE
    /\ co_cycle = 0
    /\ rd_pc = [r \in Readers |-> "idle"]
    /\ rd_tmp = [r \in Readers |-> DefaultState(0)]
    /\ rd_ret = [r \in Readers |-> {}]
    /\ rd_n = [r \in Readers |-> 0]
    /\ cl_pc = "none"
    /\ cl_latest = CloudInitialReading
    /\ cl_ready = FALSE
    /\ cl_stop = FALSE
    /\ cl_loop = "new"
    /\ cl_dash = NoDashboard
    /\ cl_snap = CloudInitialReading
    /\ cl_polls = 0
    /\ fs_resp = RespNonObject
    /\ fs_out = {}
    /\ published = {}
    /\ hist = NoHist

\* time passes between two calls (once per get_snapshot)
SimAdvance(d) ==
    /\ co_cycle < MaxTicks
    /\ clock = sim.last_update
    /\ clock' = clock + d
    /\ UNCHANGED <<lm_source, sim, coVars, rdVars, clVars, fsVars, published, hist>>

\* notify_arduino(status) with status.paddle = p
SimCallNotify(p) ==
    /\ co_cycle < MaxTicks
    /\ co_pc # "started"
    /\ co_arduino' = [DefaultStatus EXCEPT !.paddle = p]
    /\ sim' = SimNotifyArduino(sim, co_arduino', clock)
    /\ co_pc' = IF p = 1 /\ ~sim.shot_active THEN "started" ELSE "notified"
    /\ UNCHANGED <<clock, lm_source, co_shot, co_state, co_lock, co_stop, co_cycle,
                   rdVars, clVars, fsVars, published, hist>>

\* get_snapshot()
SimCallSnapshot(j) ==
    /\ co_cycle < MaxTicks
    /\ LET r == SimGetSnapshot(sim, clock, j)
       IN sim' = r.sim /\ co_shot' = r.shot
    /\ co_pc' = "snapshot"
    /\ co_cycle' = co_cycle + 1
    /\ UNCHANGED <<clock, lm_source, co_arduino, co_state, co_lock, co_stop,
                   rdVars, clVars, fsVars, published, hist>>

NextSim ==
    \/ \E d \in SimDeltas : SimAdvance(d)
    \/ \E p \in {0, 1} : SimCallNotify(p)
    \/ \E j \in SimJitters : SimCallSnapshot(j)

SpecSim == InitSim /\ [][NextSim]_vars

----------------------------------------------------------------------------
(* DataCoordinator.__init__ as a step *)

\* before construction: no source chosen yet, the configuration in hist.cfg
InitSelect ==
    \E cfg \in Configs :
        /\ clock = 0
        /\ lm_source = "none"
        /\ sim = SimInit(TargetWeight, 0)
        /\ co_pc = "construct"
        /\ co_arduino = DefaultStatus
        /\ co_shot = ShotMetricsWith(<<>>)
        /\ co_state = DefaultState(0)
        /\ co_lock = FreeLock
        /\ co_stop = FALSE
        /\ co_cycle = 0
        /\ rd_pc = [r \in Readers |-> "idle"]
        /\ rd_tmp = [r \in Readers |-> DefaultState(0)]
        /\ rd_ret = [r \in Readers |-> {}]
        /\ rd_n = [r \in Readers |-> 0]
        /\ cl_pc = "none"
        /\ cl_latest = CloudInitialReading
        /\ cl_ready = FALSE
        /\ cl_stop = FALSE
        /\ cl_loop = "new"
        /\ cl_dash = NoDashboard
        /\ cl_snap = CloudInitialReading
        /\ cl_polls = 0
        /\ fs_resp = RespNonObject
        /\ fs_out = {}
        /\ published = {}
        /\ hist = [npub |-> 0, resp |-> RespNonObject, cl_good |-> {},
                   at_stop |-> Never, cfg |-> cfg]

\* DataCoordinator.__init__: choose lm_source, start the poll thread (and the
\* cloud thread when the cloud source was constructed)
CoordConstruct ==
    /\ co_pc = "construct"
    /\ lm_source' = SelectSource(hist.cfg)
    /\ cl_pc' = IF lm_source' = "cloud" THEN "start" ELSE "none"
    /\ co_pc' = "loop"
    /\ UNCHANGED <<clock, sim, co_arduino, co_shot, co_state, co_lock, co_stop,
                   co_cycle, rdVars, cl_latest, cl_ready, cl_stop, cl_loop,
                   cl_dash, cl_snap, cl_polls, fsVars, published, hist>>

SpecSelect == InitSelect /\ [][CoordConstruct]_vars

----------------------------------------------------------------------------
(* Claims *)

\* the telemetry numbers of a reading
Numerics(shot) ==
    <<shot.target_weight_g, shot.boiler_temp_c, shot.weight_g, shot.flow_g_s,
      shot.pressure_bar, shot.group_temp_c>>

\* the step in which the cloud source's get_snapshot returns from its locked
\* section, and the one in which get_snapshot is entered
ReturnsLocked == co_pc = "snap_locked" /\ co_pc' = "acquire"
EntersGetSnapshot == co_pc = "snapshot" /\ co_pc' # "snapshot"

\* C1: every CombinedState that latest() returns is the initial state or
\* exactly one triple (timestamp, arduino, shot) stored by a single
\* _update_once; it never mixes the fields of two cycles.
C1_LatestReturnsOnePublication ==
    \A r \in Readers : rd_ret[r] \subseteq published \cup {DefaultState(0)}

\* a caller has returned the state of an earlier cycle after a later cycle
\* replaced it
C1_Witness ==
    \E r \in Readers : \E st \in rd_ret[r] :
        /\ st \in published
        /\ st # co_state
        /\ co_state \in published

\* C2: with the cloud source active, DataCoordinator.stop() also sets the
\* cloud source's stop signal.
C2_StopPropagates == (lm_source = "cloud" /\ co_stop) => cl_stop

\* C3: a status returned by fetch_status with last_error set has every other
\* field at its default.
C3_ErrorMeansDefaults ==
    \A o \in fs_out :
        o.status.last_error # None =>
            [o.status EXCEPT !.last_error = None] = DefaultStatus

\* the poll thread has not died; the publications counted are one per cycle
\* completed; the state a completed cycle published is made of that cycle's
\* status and that cycle's get_snapshot() result, and carries last_error when
\* the /status exchange failed in transport
C4_CyclePublished ==
    /\ co_pc # "crashed"
    /\ hist.npub = IF co_pc \in {"sleep", "loop", "done"} THEN co_cycle ELSE co_cycle - 1
    /\ (co_pc \in {"sleep", "loop", "done"} /\ co_cycle >= 1) =>
          /\ co_state.arduino = co_arduino
          /\ co_state.shot = co_shot
          /\ co_state.timestamp = IF co_pc = "sleep" THEN clock ELSE clock - PollIntervalMs
          /\ hist.resp.exc \in TransportFailures => co_state.arduino.last_error # None

\* C4: no outcome of fetch_status or of the source ends the poll thread; every
\* cycle of _loop that is started runs to its publication and publishes exactly
\* one CombinedState, made of that cycle's status and that cycle's
\* get_snapshot() result; a cycle whose /status exchange failed in transport
\* publishes a status with last_error set.
C4_EveryCycleCompletes ==
    /\ []C4_CyclePublished
    /\ (co_pc = "fetch") ~> (co_pc = "sleep")

\* the device failed in transport on every cycle, the second cycle is
\* published and its shot comes from the source
C4_Witness ==
    /\ co_cycle = 2 /\ co_pc = "sleep" /\ hist.npub = 2
    /\ hist.resp.exc = "URLError"
    /\ co_state.arduino.last_error = "HTTP error"
    /\ co_state.shot.notes = <<"Simulated">>

\* C5: after a successful setup, when a poll cycle failed, get_snapshot()
\* returns the telemetry of the fallback simulator's snapshot.
C5_PollFailureFallsBack ==
    [][(ReturnsLocked /\ StartsWith(cl_latest.notes, "Cloud error")) =>
          \E j \in SpecJitters :
              Numerics(co_shot') = Numerics(SimGetSnapshot(sim, clock, j).shot)]_vars

\* C6: a get_snapshot() call made when readiness is set and self._latest is a
\* "Cloud disabled" reading passes the readiness check and returns exactly the
\* fallback's get_snapshot(): the simulator advances by one tick, the reading is
\* the simulator's, nothing of self._latest is returned.
C6_DisabledDelegates ==
    [][/\ (EntersGetSnapshot /\ lm_source = "cloud" /\ cl_ready
              /\ StartsWith(cl_latest.notes, "Cloud disabled"))
          => (co_pc' = "snap_locked" /\ sim' = sim)
       /\ (ReturnsLocked /\ StartsWith(cl_latest.notes, "Cloud disabled"))
          => \E j \in SpecJitters :
                /\ sim' = SimTick(sim, clock, j)
                /\ co_shot' = SimReading(sim', clock)
                /\ co_shot' # cl_latest]_vars

\* get_snapshot() has returned the simulator's reading of a running shot
\* while self._latest is the "Cloud disabled" reading
C6_Witness ==
    /\ lm_source = "cloud" /\ co_pc = "acquire" /\ cl_ready
    /\ StartsWith(cl_latest.notes, "Cloud disabled")
    /\ co_shot.notes = <<"Simulated">>
    /\ co_shot.brew_state = "BREWING"
    /\ sim.last_update = clock

\* C7: a get_snapshot() call made while readiness is not set returns the
\* placeholder, notes "Connecting to cloud..." and every other field at its
\* default, without entering the locked section that reads self._latest and
\* without changing the fallback simulator.
C7_NotReadyPlaceholder ==
    [][(EntersGetSnapshot /\ lm_source = "cloud" /\ ~cl_ready) =>
          /\ co_pc' = "acquire"
          /\ co_shot' = [weight_g |-> 0, flow_g_s |-> 0, shot_time_ms |-> 0,
                         target_weight_g |-> 0, pressure_bar |-> 0,
                         boiler_temp_c |-> 0, group_temp_c |-> 0,
                         brew_state |-> "IDLE", scale_connected |-> FALSE,
                         notes |-> <<"Connecting to cloud...">>]
          /\ sim' = sim]_vars

\* the placeholder was returned in a second cycle, while the simulator holds
\* a running shot
C7_Witness ==
    /\ lm_source = "cloud" /\ co_pc = "acquire" /\ ~cl_ready /\ co_cycle = 2
    /\ co_shot.notes = <<"Connecting to cloud...">>
    /\ sim.shot_active

\* C8: once a successful poll has stored a reading, the reading get_snapshot()
\* returns after a failed poll has the numbers of the last successful one.
C8_FailureKeepsNumbers ==
    [][(ReturnsLocked /\ StartsWith(cl_latest.notes, "Cloud error")) =>
          \A g \in hist.cl_good : Numerics(co_shot') = Numerics(g)]_vars

\* C9: a reading that _parse_dashboard builds from a dashboard payload has the
\* weight, flow, pressure, group temperature and scale flag of self._latest as
\* it is when the reading is about to be stored.
C9_CarriedForward ==
    (cl_pc = "store" /\ ~cl_dash.none) =>
        /\ cl_snap.weight_g = cl_latest.weight_g
        /\ cl_snap.flow_g_s = cl_latest.flow_g_s
        /\ cl_snap.pressure_bar = cl_latest.pressure_bar
        /\ cl_snap.group_temp_c = cl_latest.group_temp_c
        /\ cl_snap.scale_connected = cl_latest.scale_connected

\* the second poll has parsed a payload while self._latest is the reading the
\* first poll stored
C9_Witness ==
    /\ cl_pc = "store" /\ ~cl_dash.none /\ cl_polls = 2
    /\ cl_latest.notes = <<"Cloud dashboard">>
    /\ cl_snap.notes = <<"Cloud dashboard">>

\* C10: with the simulated source and paddle values 0 and 1, every published
\* CombinedState has brew_state "BREWING" exactly when its arduino.paddle is 1,
\* and shot_time_ms 0 when brew_state is "IDLE".
C10_BrewingIffPaddle ==
    (lm_source = "sim" /\ hist.npub >= 1) =>
        /\ co_state.arduino.paddle \in {0, 1}
        /\ co_state.shot.brew_state \in {"BREWING", "IDLE"}
        /\ co_state.shot.brew_state = "BREWING" <=> co_state.arduino.paddle = 1
        /\ co_state.shot.brew_state = "IDLE" => co_state.shot.shot_time_ms = 0

\* the second cycle published IDLE after the first cycle had started a shot
C10_Witness ==
    /\ lm_source = "sim" /\ hist.npub = 2
    /\ co_state.arduino.paddle = 0
    /\ co_state.shot.brew_state = "IDLE"
    /\ sim.shot_start > 0

\* a get_snapshot() call on the simulator driven call by call
SimSnapshotStep == co_pc' = "snapshot" /\ co_cycle' = co_cycle + 1

\* C11: a notify_arduino with paddle 1 that starts a shot, followed
\* immediately by get_snapshot(), returns brew_state "BREWING", shot_time_ms 0
\* and weight_g 0, whatever time has passed since the previous tick.
C11_FreshShotReadsZero ==
    [][(co_pc = "started" /\ SimSnapshotStep) =>
          /\ co_shot'.brew_state = "BREWING"
          /\ co_shot'.shot_time_ms = 0
          /\ co_shot'.weight_g = 0]_vars

\* C12: a tick of an active shot, after a positive time delta, never lowers
\* the accumulated weight nor the weight_g read from it, whatever the jitter.
C12_WeightNonDecreasing ==
    [][(SimSnapshotStep /\ sim.shot_active /\ clock > sim.last_update) =>
          /\ sim'.shot_active
          /\ sim'.weight >= sim.weight
          /\ SimReading(sim', clock).weight_g >= SimReading(sim, clock).weight_g]_vars

\* the third tick of a shot has added weight, at a flow lowered by the jitter,
\* to the weight of the ticks before
C12_Witness ==
    /\ co_pc = "snapshot" /\ co_cycle = 3 /\ sim.shot_active
    /\ sim.last_update = clock /\ clock - sim.shot_start >= 400
    /\ sim.weight > 100000
    /\ sim.flow > 0 /\ sim.flow < (FlowPeak * Ramp(clock - sim.shot_start)) \div 1000 - 50

\* C13: on every idle tick flow_g_s is 0 and no higher than the reading
\* before, weight_g is no higher than the reading before, the internal weight
\* does not grow, and it is exactly 0 once it is below 0.05 g.
C13_IdleDecays ==
    [][(SimSnapshotStep /\ ~sim.shot_active) =>
          /\ co_shot'.brew_state = "IDLE"
          /\ co_shot'.flow_g_s = 0
          /\ co_shot'.flow_g_s <= co_shot.flow_g_s
          /\ co_shot'.weight_g <= co_shot.weight_g
          /\ sim'.weight <= sim.weight
          /\ (sim'.weight < WeightEps => sim'.weight = 0 /\ co_shot'.weight_g = 0)]_vars

\* an idle tick after a shot that read a positive flow and weight has kept a
\* decayed, positive weight
C13_Witness ==
    /\ co_pc = "snapshot" /\ ~sim.shot_active /\ co_arduino.paddle = 0
    /\ sim.shot_start > 0
    /\ sim.weight > 0 /\ sim.weight % 1000 # 0
    /\ co_shot.weight_g > 0

\* C14: construction chooses the cloud source exactly when enable_cloud is
\* set, all six credential fields are non-empty and CloudLaMarzoccoSource(...)
\* does not raise; otherwise it chooses the simulator; construction always
\* completes.
C14_SourceSelection ==
    /\ co_pc = "construct" => ENABLED CoordConstruct
    /\ co_pc # "construct" =>
          /\ co_pc = "loop"
          /\ lm_source \in {"sim", "cloud"}
          /\ lm_source = "cloud" <=>
                (/\ hist.cfg.enable_cloud
                 /\ \A f \in CredentialFields : f \in hist.cfg.present
                 /\ ~hist.cfg.ctor_raises)
          /\ cl_pc = "start" <=> lm_source = "cloud"

\* construction completed with the simulator because the cloud source's
\* constructor raised
C14_Witness ==
    /\ co_pc = "loop" /\ lm_source = "sim"
    /\ hist.cfg.enable_cloud /\ hist.cfg.present = CredentialFields
    /\ hist.cfg.ctor_raises

\* the Python value of a well-typed field of the /status object
GoodCoerced(f) ==
    CASE f = "mode" -> "AUTO"
      [] f = "paddle" -> 1
      [] f = "relay_main" -> 1
      [] f = "override" -> "on"
      [] f = "flush_active" -> TRUE
      [] f = "gesture_enabled" -> FALSE
      [] OTHER -> 2

\* the fields fetch_status coerces with int()
IntFields == FieldSet \ (StrFields \cup BoolFields)

\* C15: for a JSON object in which any subset of the known fields is absent
\* and the present ones are well typed, fetch_status returns the default of
\* each absent field, the coerced value of each present field, no last_error,
\* and raw equal to the decoded object.
C15_AbsentFieldsDefault ==
    \A o \in fs_out :
        (fs_resp.exc = None /\ fs_resp.isobj /\ fs_resp.data \in GoodObjects) =>
            /\ ~o.raised
            /\ o.status.last_error = None
            /\ o.status.raw = fs_resp.data
            /\ \A f \in FieldSet :
                  o.status[f] = IF f \in DOMAIN fs_resp.data
                                THEN GoodCoerced(f) ELSE DefaultStatus[f]

\* fetch_status has returned for an object with only paddle and override
C15_Witness ==
    /\ fs_resp.exc = None /\ fs_resp.isobj
    /\ DOMAIN fs_resp.data = {"paddle", "override"}
    /\ fs_resp.data \in GoodObjects
    /\ \E o \in fs_out : o.status.paddle = 1 /\ o.status.mode = "UNKNOWN"
                         /\ o.status.gesture_enabled

\* C16: for a JSON object in which one known field is present with a value
\* that cannot be coerced, fetch_status treats the field as it treats a
\* missing one: the field has its default, every other present field has its
\* coerced value, and last_error is unset.
C16_MalformedFieldDefaults ==
    \A o \in fs_out :
        \A g \in IntFields :
            (/\ fs_resp.exc = None /\ fs_resp.isobj
             /\ g \in DOMAIN fs_resp.data
             /\ PyInt(fs_resp.data[g]).exc # None
             /\ \A f \in DOMAIN fs_resp.data \ {g} : fs_resp.data[f] = GoodVal(f)) =>
                /\ o.status[g] = DefaultStatus[g]
                /\ o.status.last_error = None
                /\ \A f \in FieldSet \ {g} :
                      o.status[f] = IF f \in DOMAIN fs_resp.data
                                    THEN GoodCoerced(f) ELSE DefaultStatus[f]

\* C17: DataCoordinator._lock is held by the poll thread only in the step
\* that assigns _state and by a latest() caller only while it copies _state;
\* it is never held during fetch_status, notify_arduino or get_snapshot, so
\* whoever holds it can release it without waiting for a network request.
C17_LockOnlyAroundState ==
    /\ co_lock = CoordHolder <=> co_pc = "publish"
    /\ co_pc \in {"fetch", "notify", "snapshot", "snap_locked"} => co_lock # CoordHolder
    /\ co_lock = CoordHolder => ENABLED CoordPublish(TRUE)
    /\ \A r \in Readers :
          /\ co_lock = ReaderHolder(r) <=> rd_pc[r] \in {"arduino", "shot"}
          /\ rd_pc[r] = "arduino" => ENABLED LatestReadArduino(r)
          /\ rd_pc[r] = "shot" => ENABLED LatestReturn(r)

\* a latest() caller is copying the state of the first cycle while the poll
\* thread is inside fetch_status of the second
C17_Witness ==
    /\ co_pc = "fetch" /\ co_cycle = 2
    /\ \E r \in Readers : co_lock = ReaderHolder(r) /\ rd_pc[r] = "shot"

\* after stop(): at most one more publication, and what is published is the
\* status and the snapshot of one cycle; the loop is left only after stop()
C18_StopSafety ==
    /\ co_stop => hist.at_stop # Never /\ hist.npub <= hist.at_stop + 1
    /\ (co_stop /\ co_pc \in {"sleep", "loop", "done"} /\ hist.npub > hist.at_stop) =>
          /\ co_state.arduino = co_arduino
          /\ co_state.shot = co_shot
    /\ co_pc = "done" => co_stop /\ co_lock # CoordHolder

\* C18: after stop() the loop finishes the cycle in progress and leaves at its
\* next check of the stop signal: at most one more CombinedState is published,
\* a complete one; the loop terminates; nothing is published after that.
C18_StopEndsLoop ==
    /\ []C18_StopSafety
    /\ [][co_pc = "done" =>
            (co_pc' = "done" /\ co_state' = co_state /\ hist'.npub = hist.npub)]_vars
    /\ co_stop ~> (co_pc = "done")

\* stop() was called inside the second cycle; that cycle was published and
\* the loop has ended
C18_Witness ==
    /\ co_pc = "done" /\ co_stop
    /\ hist.at_stop = 1 /\ hist.npub = 2 /\ co_cycle = 2

\* C19: stop() never interrupts the cloud loop in the middle of an
\* iteration: once the loop polls, the thread ends only by leaving _loop_main
\* at the loop's check of the stop signal, with the result of every operation
\* that was in flight handled.
C19_StopIsCooperative == (cl_loop = "closed" /\ cl_polls >= 1) => cl_pc = "done"

\* the positions of _loop_main before registration and token acquisition
\* have finished
SetupPcs == {"start", "register", "token"}

\* readiness is not set during the setup, and is set at every position
\* _loop_main reaches after the setup succeeded or after the except clause
\* set it
C20_ReadyAfterSetup ==
    /\ cl_ready => cl_pc \notin SetupPcs \cup {"fail_ready"}
    /\ cl_pc \in {"poll_check", "get_dashboard", "parse", "store", "poll_error",
                  "sleep", "fail_store", "done"} => cl_ready

\* C20: readiness is set once registration and token acquisition have
\* finished, whether they succeeded or raised; it is not set before that, and
\* once set it is never cleared.
C20_Readiness ==
    /\ []C20_ReadyAfterSetup
    /\ [][cl_ready => cl_ready']_vars
    /\ (cl_pc = "fail_ready") ~> cl_ready

\* token acquisition raised, readiness was set by the except clause and the
\* thread has ended
C20_Witness ==
    /\ cl_ready /\ cl_pc = "done"
    /\ cl_latest = CloudDisabledReading("AuthError")
    /\ cl_polls = 0

\* the order of the positions of the poll thread
CycleOrder ==
    {<<"loop", "fetch">>, <<"loop", "done">>, <<"fetch", "notify">>,
     <<"notify", "snapshot">>, <<"snapshot", "snap_locked">>,
     <<"snapshot", "acquire">>, <<"snap_locked", "acquire">>,
     <<"acquire", "publish">>, <<"publish", "sleep">>, <<"sleep", "loop">>}

\* C21: a cycle runs fetch_status, then notify_arduino with the status just
\* fetched, then get_snapshot, then the publication of that status and that
\* snapshot; the status changes only in fetch_status and the simulator only in
\* notify_arduino and get_snapshot, so a published snapshot reflects the
\* device reads up to its own cycle and none after.
C21_CycleOrder ==
    [][/\ co_pc' # co_pc => <<co_pc, co_pc'>> \in CycleOrder
       /\ co_arduino' # co_arduino => co_pc = "fetch"
       /\ co_shot' # co_shot => co_pc \in {"snapshot", "snap_locked"}
       /\ sim' # sim => co_pc \in {"notify", "snapshot", "snap_locked"}
       /\ (co_pc = "notify" /\ co_pc' = "snapshot") =>
             sim' = SimNotifyArduino(sim, co_arduino, clock)
       /\ (co_pc = "publish" /\ co_pc' = "sleep") =>
             /\ co_state'.arduino = co_arduino
             /\ co_state'.shot = co_shot
             /\ lm_source = "sim" =>
                   (co_shot.brew_state = "BREWING" <=> co_arduino.paddle = 1)]_vars

\* the second cycle read paddle 1 after the first read paddle 0, and
\* published a shot started in this very cycle
C21_Witness ==
    /\ lm_source = "sim" /\ co_pc = "sleep" /\ hist.npub = 2
    /\ co_state.arduino.paddle = 1
    /\ co_state.shot.brew_state = "BREWING"
    /\ co_state.shot.shot_time_ms = 0
    /\ sim.shot_start = co_state.timestamp

\* once the loop polls, its thread ends only after stop()
C22_EndsOnlyOnStop ==
    (cl_polls >= 1 /\ cl_pc \in {"done", "abandoned"}) => cl_stop

\* C22: after a successful setup a poll that raises stores a "Cloud error"
\* reading and goes on to the inter-poll delay and the next check of the stop
\* signal; the loop ends only after stop(); a later poll that parses a
\* dashboard stores a "Cloud dashboard" reading in its place.
C22_PollErrorsDoNotStop ==
    /\ []C22_EndsOnlyOnStop
    /\ [][/\ (cl_pc = "poll_error" /\ cl_pc' # cl_pc) =>
               /\ cl_pc' = "sleep"
               /\ StartsWith(cl_latest'.notes, "Cloud error")
          /\ (cl_pc = "poll_check" /\ cl_pc' # cl_pc /\ ~cl_stop) =>
               cl_pc' = "get_dashboard"
          /\ (cl_pc = "store" /\ cl_pc' # cl_pc /\ ~cl_dash.none) =>
               /\ cl_pc' = "sleep"
               /\ cl_latest'.notes = <<"Cloud dashboard">>]_vars
    /\ (cl_pc = "poll_error" /\ ~cl_stop) ~> (cl_pc = "poll_check" \/ cl_stop)

\* the second poll has parsed a dashboard while _latest still holds the
\* "Cloud error" reading of the first
C22_Witness ==
    /\ cl_pc = "store" /\ cl_polls = 2 /\ ~cl_stop /\ ~cl_dash.none
    /\ StartsWith(cl_latest.notes, "Cloud error")
    /\ cl_snap.notes = <<"Cloud dashboard">>

\* C23: a get_snapshot() call that found readiness set never returns the
\* initial "Waiting for cloud..." reading, and when the setup has failed it
\* returns the fallback simulator's snapshot.
C23_ReadyMeansFallbackOrPolled ==
    [][ReturnsLocked =>
          /\ co_shot'.notes # <<"Waiting for cloud...">>
          /\ cl_pc \in {"fail_store", "done"} /\ cl_polls = 0 =>
                co_shot'.notes = <<"Simulated">>]_vars

\* self._latest holds a "Cloud disabled" reading
CloudDisabled == StartsWith(cl_latest.notes, "Cloud disabled")

\* C24: a "Cloud disabled" reading is stored only by a setup that failed
\* before the first poll; while _latest holds it the cloud thread has ended
\* and neither polls nor writes, and every get_snapshot() that reads it
\* returns the fallback's snapshot.
C24_DisabledIsAbsorbing ==
    /\ [](CloudDisabled => cl_pc = "done" /\ cl_polls = 0 /\ cl_ready)
    /\ [][/\ (~CloudDisabled /\ CloudDisabled') =>
               (cl_pc = "fail_store" /\ cl_pc' = "done" /\ cl_polls = 0)
          /\ CloudDisabled =>
               (cl_latest' = cl_latest /\ cl_pc' = "done" /\ cl_polls' = 0)
          /\ (CloudDisabled /\ ReturnsLocked) =>
               co_shot'.notes = <<"Simulated">>]_vars

\* get_snapshot() has delegated to the fallback in two cycles in a row
C24_Witness ==
    /\ CloudDisabled /\ co_cycle = 2 /\ co_pc = "acquire"
    /\ co_shot.notes = <<"Simulated">>
    /\ hist.npub = 1 /\ co_state.shot.notes = <<"Simulated">>

\* C25: the simulator is changed only by steps of the poll thread, inside
\* notify_arduino and get_snapshot; no step of the cloud thread and no step of
\* a latest() caller changes it or moves the poll thread, and the cloud thread
\* never stores a reading taken from it.
C25_SimulatorOnlyInPollThread ==
    /\ [](cl_latest.notes # <<"Simulated">> /\ cl_snap.notes # <<"Simulated">>)
    /\ [][/\ sim' # sim =>
               /\ co_pc \in {"notify", "snapshot", "snap_locked"}
               /\ co_pc' # co_pc
               /\ clVars' = clVars /\ rdVars' = rdVars
          /\ clVars' # clVars => (sim' = sim /\ co_pc' = co_pc)
          /\ rdVars' # rdVars => (sim' = sim /\ co_pc' = co_pc)]_vars

\* the poll thread is between notify_arduino, which started a shot in the
\* fallback simulator, and get_snapshot, while the cloud thread waits for a
\* dashboard and the UI thread is copying the state
C25_Witness ==
    /\ co_pc = "snapshot" /\ sim.shot_active /\ sim.shot_start = clock
    /\ cl_pc = "get_dashboard"
    /\ rd_pc[UiReader] = "shot"

\* the steps of _update_once on the simulator
NotifyStep == co_pc = "notify" /\ co_pc' = "snapshot"
SnapshotStep == co_pc = "snapshot" /\ co_pc' = "acquire"
\* the /status exchange of the cycle failed in urlopen or read
TransportFailure == hist.resp.exc \in TransportFailures

\* C26: with the simulated source, a cycle whose /status exchange fails at the
\* transport level carries paddle 0 and an error, its notify_arduino leaves no
\* shot active and its reading is IDLE with flow 0 and shot time 0; the shot
\* stays ended until a status with paddle 1 arrives, and the notify_arduino of
\* that cycle starts a shot at weight 0, flow 0 and shot_start = now, so the
\* reading of that cycle is BREWING with shot time 0 and a weight of at most
\* what the jitter (0.1 g/s) adds to 0 in one tick, whatever the interrupted
\* shot weighed.
C26_FailureEndsShot ==
    /\ []((co_pc \in {"snapshot", "acquire", "publish", "sleep", "loop", "fetch"}
           /\ TransportFailure) => ~sim.shot_active)
    /\ [][/\ (NotifyStep /\ TransportFailure) =>
               /\ co_arduino.paddle = 0 /\ co_arduino.last_error # None
               /\ ~sim'.shot_active /\ sim'.flow = 0
          /\ (SnapshotStep /\ TransportFailure) =>
               /\ co_shot'.brew_state = "IDLE"
               /\ co_shot'.flow_g_s = 0
               /\ co_shot'.shot_time_ms = 0
          /\ (NotifyStep /\ co_arduino.paddle = 1 /\ ~sim.shot_active) =>
               /\ sim'.shot_active /\ sim'.shot_start = clock
               /\ sim'.weight = 0 /\ sim'.flow = 0
          /\ (SnapshotStep /\ sim.shot_active /\ sim.shot_start = clock) =>
               /\ co_shot'.brew_state = "BREWING"
               /\ co_shot'.shot_time_ms = 0
               /\ sim'.weight <= 100 * (clock - sim.last_update)
               /\ co_shot'.weight_g <= 100000]_vars

\* a shot that had reached 0.5 g was ended by an unreachable host (the state
\* published last: IDLE, the weight still shown), and the read after it, with
\* paddle 1, has started a shot that reads BREWING at 0 ms and 0 g
C26_Witness ==
    /\ lm_source = "sim" /\ co_pc = "acquire"
    /\ co_state.arduino.last_error = "HTTP error"
    /\ co_state.arduino.paddle = 0
    /\ co_state.shot.brew_state = "IDLE"
    /\ co_state.shot.weight_g >= 500000
    /\ co_arduino.paddle = 1 /\ co_arduino.last_error = None
    /\ co_shot.brew_state = "BREWING"
    /\ co_shot.shot_time_ms = 0
    /\ co_shot.weight_g = 0
    /\ sim.shot_start = clock

====
